---- MODULE Spec2Model ----
(***************************************************************************)
(* Model of the development front door in src/api: server.py (ProxyHandler *)
(* behind ThreadedHTTPServer: CORS preflight, static files under           *)
(* /uploads/, everything else proxied to the PHP backend) and              *)
(* static_server.py (CORSRequestHandler: static files only).               *)
(*                                                                         *)
(* Representation.                                                         *)
(*  - A URL path is the sequence of its '/'-separated segments, so         *)
(*    "/uploads/a" is <<"", "uploads", "a">> and "/uploads/" is            *)
(*    <<"", "uploads", "">>.  A request target is the path, plus the query *)
(*    that follows the first '?' when there is one.                        *)
(*  - A header name is the sequence of its '-'-separated words, each word  *)
(*    in some letter case, so "Content-Length" is <<"Content", "Length">>. *)
(*  - A byte string is never spelled out: a body is a sequence of slices   *)
(*    [kind, loc, lo, hi], the bytes lo..hi-1 of a file, of the backend's  *)
(*    body, of the inbound body or of a generated page.                    *)
(***************************************************************************)
EXTENDS Naturals, Integers, Sequences, FiniteSets, TLC

\* ------------------------------------------------------------------ bounds
MaxReqHdrs == 2
MaxRespHdrs == 2
MaxSegs == 4
MaxConns == 3

\* ------------------------------------------------------- program constants
ChunkSize == 8192
StaticChunkSize == 65536

\* ------------------------------------------------------------ small helpers
SeqsUpTo(S, n) == UNION {[1..k -> S] : k \in 0..n}

Min(a, b) == IF a < b THEN a ELSE b

IsPrefix(p, s) == Len(p) <= Len(s) /\ SubSeq(s, 1, Len(p)) = p

\* -------------------------------------------------------------- letter case
\* <<lower, Capitalized, UPPER>> forms of the words header names are made of.
CaseTable ==
  { <<"access", "Access", "ACCESS">>, <<"control", "Control", "CONTROL">>,
    <<"allow", "Allow", "ALLOW">>, <<"origin", "Origin", "ORIGIN">>,
    <<"methods", "Methods", "METHODS">>, <<"headers", "Headers", "HEADERS">>,
    <<"host", "Host", "HOST">>, <<"content", "Content", "CONTENT">>,
    <<"length", "Length", "LENGTH">>, <<"type", "Type", "TYPE">>,
    <<"transfer", "Transfer", "TRANSFER">>, <<"encoding", "Encoding", "ENCODING">>,
    <<"connection", "Connection", "CONNECTION">>, <<"cache", "Cache", "CACHE">>,
    <<"server", "Server", "SERVER">>, <<"date", "Date", "DATE">>,
    <<"location", "Location", "LOCATION">>,
    <<"x", "X", "X">>, <<"trace", "Trace", "TRACE">> }

FormsOf(w) == CHOOSE t \in CaseTable : w \in {t[1], t[2], t[3]}

\* str.lower() of a header name
Lower(name) == [i \in DOMAIN name |-> FormsOf(name[i])[1]]

\* str.capitalize(): first character upper case, the rest lower case
Capitalize(name) ==
  [i \in DOMAIN name |->
     IF i = 1 THEN FormsOf(name[i])[2] ELSE FormsOf(name[i])[1]]

\* str.title(): every word capitalized
Title(name) == [i \in DOMAIN name |-> FormsOf(name[i])[2]]

\* name.startswith('access-control-'): the words access and control, then a
\* '-' and therefore at least one more word
StartsWithAccessControl(lname) ==
  Len(lname) > 2 /\ lname[1] = "access" /\ lname[2] = "control"

\* ---------------------------------------------------------- decimal numbers
Digit == <<"0", "1", "2", "3", "4", "5", "6", "7", "8", "9">>

RECURSIVE Str(_)
\* str(n) for n >= 0
Str(n) == IF n < 10 THEN Digit[n + 1] ELSE Str(n \div 10) \o Digit[(n % 10) + 1]

Numerals == 0..9
NotANumber == 0 - 1000

\* int(s): the number s spells, NotANumber where int() raises ValueError
IntOf(s) ==
  IF \E n \in Numerals : Str(n) = s THEN CHOOSE n \in Numerals : Str(n) = s
  ELSE IF \E n \in Numerals : ("-" \o Str(n)) = s
       THEN 0 - (CHOOSE n \in Numerals : ("-" \o Str(n)) = s)
       ELSE NotANumber

\* ------------------------------------------------------------- file system
\* API_DIR / DIRECTORY: the directory of the script, "/srv/api" here.
API_DIR == <<"", "srv", "api">>

\* The same directory as a location (the names from "/" down).
RootLoc == <<"srv", "api">>

\* The directories and the regular files of the machine, by location.  The
\* tree is read-only and does not change while the servers run.
Dirs == { <<>>, <<"srv">>, <<"srv", "api">>, <<"srv", "api", "uploads">> }

FileSize ==
  ( <<"srv", "api", "uploads", "car1.webp">> :> 500000 ) @@
  ( <<"srv", "api", "uploads", "empty.bin">> :> 0 ) @@
  ( <<"srv", "api", "uploads", "note.txt">> :> 5 ) @@
  ( <<"srv", "api", "uploads", "one.bin">> :> ChunkSize ) @@
  ( <<"srv", "api", "server.py">> :> 4711 ) @@
  ( <<"srv", "secret.env">> :> 7 )

NoEnt == <<"", "ENOENT">>

Parent(loc) == IF loc = <<>> THEN <<>> ELSE SubSeq(loc, 1, Len(loc) - 1)

RECURSIVE Walk(_, _)
\* The kernel's resolution of the remaining segments from the location cur:
\* "" and "." stay, ".." goes up (the root is its own parent), a name goes
\* down, and only a directory can be walked through.
Walk(cur, rest) ==
  IF rest = <<>> THEN cur
  ELSE IF cur \notin Dirs THEN NoEnt
  ELSE IF Head(rest) \in {"", "."} THEN Walk(cur, Tail(rest))
  ELSE IF Head(rest) = ".." THEN Walk(Parent(cur), Tail(rest))
  ELSE Walk(Append(cur, Head(rest)), Tail(rest))

\* The location a file path names (NoEnt when it names nothing).
Resolve(file_path) ==
  LET loc == Walk(<<>>, file_path)
  IN IF loc \in Dirs \/ loc \in DOMAIN FileSize THEN loc ELSE NoEnt

\* os.path.isfile / os.path.isdir / os.path.getsize
IsFile(file_path) == Resolve(file_path) \in DOMAIN FileSize
IsDir(file_path) == Resolve(file_path) \in Dirs
GetSize(file_path) == FileSize[Resolve(file_path)]

UnderRoot(loc) == IsPrefix(RootLoc, loc)

RECURSIVE LStrip(_)
\* path.lstrip('/'): every leading '/' removed
LStrip(path) ==
  IF Len(path) > 1 /\ Head(path) = "" THEN LStrip(Tail(path)) ELSE path

\* os.path.join(a, b): b alone when b is absolute, else a + '/' + b
Join(a, b) == IF Len(b) > 1 /\ Head(b) = "" THEN b ELSE a \o b

\* mimetypes.guess_type by the extension of the last segment; "" is None
GuessType(file_path) ==
  LET name == file_path[Len(file_path)]
  IN CASE name \in {"car1.webp"} -> "image/webp"
       [] name \in {"note.txt"} -> "text/plain"
       [] name \in {"missing.jpg"} -> "image/jpeg"
       [] name \in {"server.py"} -> "text/x-python"
       [] OTHER -> ""

\* ------------------------------------------------------------------ routing
\* self.path is kept as the list self.path.split('?') of its pieces, each a
\* path in segments; the first piece is the path without the query string.
StripQuery(target) == target[1]

\* Mutant: path.startswith('/uploads'), the closing '/' forgotten
StartsWithUploadsNoSlash(path) ==
  Len(path) > 1 /\ path[1] = "" /\ path[2] = "uploads"

\* path.startswith('/uploads/')
StartsWithUploads(path) ==
  Len(path) > 2 /\ path[1] = "" /\ path[2] = "uploads"

\* do_GET, do_POST, do_PUT, do_DELETE of ProxyHandler: where a request goes
Route(method, target) ==
  IF method = "GET" /\ StartsWithUploads(StripQuery(target))
  THEN "STATIC" ELSE "PROXY"

\* serve_static_file: the file path built from the URL path
StaticFilePath(path) == Join(API_DIR, LStrip(path))

\* ------------------------------------------------------------------ headers
\* A header is <<name, value>>.
HOrigin == <<"Access", "Control", "Allow", "Origin">>
HMethods == <<"Access", "Control", "Allow", "Methods">>
HHeaders == <<"Access", "Control", "Allow", "Headers">>
HContentType == <<"Content", "Type">>
HContentLength == <<"Content", "Length">>
HCacheControl == <<"Cache", "Control">>
HConnection == <<"Connection">>

Slice(kind, loc, lo, hi) == [kind |-> kind, loc |-> loc, lo |-> lo, hi |-> hi]

\* BaseHTTPRequestHandler.send_response: the status line, then the Server and
\* Date headers.
send_response(code) ==
  [status |-> code,
   headers |-> << <<(<<"Server">>), "BaseHTTP">>, <<(<<"Date">>), "now">> >>,
   body |-> <<>>]

\* send_header
send_header(r, name, value) == [r EXCEPT !.headers = Append(@, <<name, value>>)]

\* wfile.write(data): nothing is written for an empty byte string
Write(r, data) ==
  IF data.hi > data.lo THEN [r EXCEPT !.body = Append(@, data)] ELSE r

\* wfile.write(data) after the header block of the response under way
WriteBody(rs, data) == [rs EXCEPT ![Len(rs)] = Write(@, data)]

\* ProxyHandler.send_cors_headers
send_cors_headers(r) ==
  send_header(
    send_header(
      send_header(r, HOrigin, "*"),
      HMethods, "GET, POST, PUT, DELETE, OPTIONS"),
    HHeaders, "*")

\* The three header lines CORSRequestHandler writes in do_GET and do_OPTIONS.
StaticCorsHeaders(r) ==
  send_header(
    send_header(
      send_header(r, HOrigin, "*"),
      HMethods, "GET, OPTIONS"),
    HHeaders, "*")

\* Length of the HTML page send_error generates (it depends on the code and
\* the message only).
ErrorPageLen(code) == 300 + code

\* BaseHTTPRequestHandler.send_error for the codes used here (all >= 400):
\* status line, Server, Date, Connection: close, the type and length of the
\* generated page, and the page.
send_error(code) ==
  Write(
    send_header(
      send_header(
        send_header(send_response(code), HConnection, "close"),
        HContentType, "text/html;charset=utf-8"),
      HContentLength, Str(ErrorPageLen(code))),
    Slice("error", <<>>, 0, ErrorPageLen(code)))

\* Mutant: the preflight answered 204 No Content
OptionsResponseNoContent == send_cors_headers(send_response(204))

\* ProxyHandler.do_OPTIONS
OptionsResponse == send_cors_headers(send_response(200))

\* CORSRequestHandler.do_OPTIONS
StaticOptionsResponse == StaticCorsHeaders(send_response(200))

\* serve_static_file: the header block of a 200
StaticHead(file_path) ==
  LET guessed == GuessType(file_path)
      content_type == IF guessed = "" THEN "application/octet-stream" ELSE guessed
      file_size == GetSize(file_path)
  IN send_header(
       send_cors_headers(
         send_header(
           send_header(send_response(200), HContentType, content_type),
           HContentLength, Str(file_size))),
       HCacheControl, "public, max-age=86400")

\* --------------------------------------------------- forwarding to the backend
\* self.headers.get('Content-Length', 0): the first value under that name in
\* any letter case, "0" when there is none
GetContentLength(headers) ==
  LET hits == SelectSeq(headers, LAMBDA h : Lower(h[1]) = <<"content", "length">>)
  IN IF hits = <<>> THEN "0" ELSE hits[1][2]

\* d[key] = val on a dict kept as the sequence of its items
DictSet(d, key, val) ==
  IF \E i \in DOMAIN d : d[i][1] = key
  THEN [i \in DOMAIN d |-> IF d[i][1] = key THEN <<key, val>> ELSE d[i]]
  ELSE Append(d, <<key, val>>)

\* Request.add_header: self.headers[key.capitalize()] = val
AddHeader(d, key, val) == DictSet(d, Capitalize(key), val)

\* the test of the header-copying loop of proxy_to_php
ForwardedName(name) ==
  Lower(name) \notin { <<"host">>, <<"content", "length">> }

RECURSIVE CopyRequestHeaders(_, _)
\* for header, value in self.headers.items(): ... req.add_header(header, value)
CopyRequestHeaders(d, headers) ==
  IF headers = <<>> THEN d
  ELSE CopyRequestHeaders(
         IF ForwardedName(Head(headers)[1])
         THEN AddHeader(d, Head(headers)[1], Head(headers)[2])
         ELSE d,
         Tail(headers))

\* What urlopen puts on the wire from the request's headers
\* (AbstractHTTPHandler.do_open): Connection is set to close and every name
\* is title-cased.
WireHeaders(d) ==
  LET closed == DictSet(d, <<"Connection">>, "close")
  IN [i \in DOMAIN closed |-> <<Title(closed[i][1]), closed[i][2]>>]

\* proxy_to_php up to urlopen: the request issued to the backend
BackendRequest(r) ==
  LET content_length == IntOf(GetContentLength(r.headers))
  IN [method |-> r.method,
      target |-> r.target,
      headers |-> WireHeaders(CopyRequestHeaders(<<>>, r.headers)),
      body |-> IF content_length > 0
               THEN << Slice("inbound", <<>>, 0, content_length) >>
               ELSE <<>>]

\* ------------------------------------------------------ relaying the response
\* Mutant: the header name is tested as sent, .lower() forgotten
RelayedCaseSensitive(h) ==
  /\ h[1] \notin { <<"transfer", "encoding">>, <<"connection">> }
  /\ ~StartsWithAccessControl(h[1])

\* the test of the response-header loop of proxy_to_php
Relayed(h) ==
  LET header_lower == Lower(h[1])
  IN /\ header_lower \notin { <<"transfer", "encoding">>, <<"connection">> }
     /\ ~StartsWithAccessControl(header_lower)

\* proxy_to_php, the with block up to end_headers
RelayHead(b) ==
  LET copied == SelectSeq(b.headers, Relayed)
      start == send_response(b.status)
  IN send_cors_headers([start EXCEPT !.headers = @ \o copied])

\* proxy_to_php, except HTTPError up to end_headers
ErrorRelayHead(b) == send_cors_headers(send_response(b.status))

\* urlopen raises HTTPError for every status outside 2xx (redirects, which
\* it follows, are not among the backend's answers here)
IsHttpError(b) == ~(b.status >= 200 /\ b.status < 300)

\* ------------------------------------------------------------------- inputs
Methods == {"GET", "POST", "PUT", "DELETE", "OPTIONS"}

UploadsCar == <<"", "uploads", "car1.webp">>
ApiCars == <<"", "api", "cars">>

\* Request targets, as lists of '?'-separated pieces.
Targets ==
  { << UploadsCar >>,
    << UploadsCar, <<"v=2">> >>,
    << <<"", "uploads", "empty.bin">> >>,
    << <<"", "uploads", "note.txt">> >>,
    << <<"", "uploads", "one.bin">> >>,
    << <<"", "uploads", "missing.jpg">> >>,
    << <<"", "uploads", "">> >>,
    << <<"", "uploads">> >>,
    << <<"", "uploads", "..", "..", "secret.env">> >>,
    << <<"", "uploads", "..", "server.py">> >>,
    << ApiCars >>,
    << ApiCars, <<"next=", "uploads", "note.txt">> >>,
    << <<"", "">> >> }

\* Inbound header lines.
ReqHeaderPool ==
  { <<(<<"Host">>), "localhost:8000">>,
    <<(<<"CONTENT", "Length">>), "3">>,
    <<(<<"Content", "Length">>), "0">>,
    <<(<<"content", "length">>), "abc">>,
    <<(<<"X", "Trace">>), "1">>,
    <<(<<"x", "trace">>), "2">>,
    <<(<<"X", "Trace">>), "3">> }

\* Header lines of the backend's answers.
RespHeaderPool ==
  { <<(<<"Content", "Type">>), "application/json">>,
    <<(<<"Access", "Control", "Allow", "Origin">>), "http://php">>,
    <<(<<"ACCESS", "CONTROL", "allow", "methods">>), "GET">>,
    <<(<<"Access", "Control">>), "odd">>,
    <<(<<"Transfer", "Encoding">>), "chunked">>,
    <<(<<"CONNECTION">>), "close">> }

\* What the backend does with one request: the connection fails (refused,
\* timed out, reset) before any answer, or it answers with a status, headers
\* and a body of bodyLen bytes, whose reading may fail part way (readOk).
NetErr ==
  [kind |-> "neterr", status |-> 0, headers |-> <<>>, bodyLen |-> 0, readOk |-> FALSE]

Answer(status, headers, bodyLen, readOk) ==
  [kind |-> "http", status |-> status, headers |-> headers,
   bodyLen |-> bodyLen, readOk |-> readOk]

BackendStatuses == {200, 201, 404, 500}

PlainBackends ==
  { NetErr,
    Answer(200, <<>>, 12, TRUE), Answer(200, <<>>, 12, FALSE),
    Answer(404, <<>>, 12, TRUE) }

AllAnswers ==
  { Answer(st, hs, n, ok) : st \in BackendStatuses,
                            hs \in SeqsUpTo(RespHeaderPool, MaxRespHdrs),
                            n \in {0, 12}, ok \in BOOLEAN }

Request(svc, method, target, headers) ==
  [svc |-> svc, method |-> method, target |-> target, headers |-> headers]

NoRequest == Request("none", "", << <<"">> >>, <<>>)

\* A scenario is a request together with the backend's behaviour for it:
\* every method and target with plain backends, every inbound header list
\* against one backend answer, and every backend answer to one request.
Scenarios ==
  { [req |-> Request(svc, m, t, <<>>), backend |-> b] :
      svc \in {"proxy", "static"}, m \in Methods, t \in Targets,
      b \in PlainBackends }
  \cup
  { [req |-> Request("proxy", "POST", << ApiCars >>, hs),
     backend |-> Answer(201, <<>>, 12, TRUE)] :
      hs \in SeqsUpTo(ReqHeaderPool, MaxReqHdrs) }
  \cup
  { [req |-> Request("proxy", "GET", << ApiCars >>, <<>>), backend |-> b] :
      b \in AllAnswers }

\* The scenarios of the runs with several connections at once.
ConcScenarios ==
  { [req |-> Request("proxy", m, t, <<>>), backend |-> b] :
      m \in {"GET", "POST", "OPTIONS"},
      t \in { << <<"", "uploads", "note.txt">> >>,
              << <<"", "uploads", "missing.jpg">> >>, << ApiCars >> },
      b \in PlainBackends }

Workers == {"w1", "w2"}

\* -------------------------------------------------------------------- state
VARIABLES
  listening,  \* the server is in serve_forever
  accepted,   \* number of connections accepted so far
  pc,         \* per worker thread: where its handler is
  cid,        \* per worker: the number of the connection it serves
  req,        \* per worker: the request read from the connection
  backend,    \* per worker: what the backend does with this request
  conn,       \* per worker: the client's side of the connection
  resp,       \* per worker: the responses written to the client
  upstream,   \* per worker: the requests issued to the backend
  lookups,    \* per worker: the file paths tested with isfile
  pos,        \* per worker: offset of the next chunk of the file streamed
  probe,      \* an input of the routing function
  decision    \* the routing function's result for probe

vars ==
  <<listening, accepted, pc, cid, req, backend, conn, resp, upstream, lookups,
    pos, probe, decision>>

workerVars == <<pc, cid, req, backend, conn, resp, upstream, lookups, pos>>

NoProbe == [method |-> "", target |-> << <<"">> >>]

InitServer ==
  /\ listening = TRUE
  /\ accepted = 0
  /\ pc = [w \in Workers |-> "idle"]
  /\ cid = [w \in Workers |-> 0]
  /\ req = [w \in Workers |-> NoRequest]
  /\ backend = [w \in Workers |-> NetErr]
  /\ conn = [w \in Workers |-> "none"]
  /\ resp = [w \in Workers |-> <<>>]
  /\ upstream = [w \in Workers |-> <<>>]
  /\ lookups = [w \in Workers |-> <<>>]
  /\ pos = [w \in Workers |-> 0]

Init ==
  /\ InitServer
  /\ probe = NoProbe
  /\ decision = "NONE"

\* ---------------------------------------------------------- the server loop
\* ThreadingMixIn.process_request: a thread per accepted connection, which
\* reads the request and calls the handler.
Accept(w, scenarios) ==
  /\ listening
  /\ pc[w] = "idle"
  /\ accepted < MaxConns
  /\ \E sc \in scenarios :
       /\ req' = [req EXCEPT ![w] = sc.req]
       /\ backend' = [backend EXCEPT ![w] = sc.backend]
  /\ accepted' = accepted + 1
  /\ cid' = [cid EXCEPT ![w] = accepted + 1]
  /\ conn' = [conn EXCEPT ![w] = "open"]
  /\ pc' = [pc EXCEPT ![w] = "accepted"]
  /\ UNCHANGED <<listening, resp, upstream, lookups, pos, probe, decision>>

\* The handler returned, or caught its exception: the thread ends.
Finish(w, to) ==
  /\ pc' = [pc EXCEPT ![w] = to]
  /\ UNCHANGED listening

\* Mutant: the handler runs in the accept loop (no ThreadingMixIn), and its
\* exception ends serve_forever
HandleErrorStopsServer(w) ==
  /\ pc' = [pc EXCEPT ![w] = "crashed"]
  /\ listening' = FALSE

\* An exception left the handler: process_request_thread catches it, reports
\* it (handle_error) and shuts the connection down; serve_forever goes on.
HandleError(w) ==
  /\ pc' = [pc EXCEPT ![w] = "crashed"]
  /\ UNCHANGED listening

\* The client closes its side of a connection being served.
ClientDisconnect(w) ==
  /\ pc[w] \notin {"idle", "done", "crashed"}
  /\ conn[w] = "open"
  /\ conn' = [conn EXCEPT ![w] = "closed"]
  /\ UNCHANGED <<listening, accepted, pc, cid, req, backend, resp, upstream,
                 lookups, pos, probe, decision>>

\* shutdown_request: the thread is gone and its slot serves a later connection.
Close(w) ==
  /\ pc[w] \in {"done", "crashed"}
  /\ pc' = [pc EXCEPT ![w] = "idle"]
  /\ cid' = [cid EXCEPT ![w] = 0]
  /\ req' = [req EXCEPT ![w] = NoRequest]
  /\ backend' = [backend EXCEPT ![w] = NetErr]
  /\ conn' = [conn EXCEPT ![w] = "none"]
  /\ resp' = [resp EXCEPT ![w] = <<>>]
  /\ upstream' = [upstream EXCEPT ![w] = <<>>]
  /\ lookups' = [lookups EXCEPT ![w] = <<>>]
  /\ pos' = [pos EXCEPT ![w] = 0]
  /\ UNCHANGED <<listening, accepted, probe, decision>>

\* A response written in one piece by a handler that catches nothing: it
\* reaches the client, or the write raises and the exception leaves the handler.
Respond(w, r) ==
  IF conn[w] = "open"
  THEN resp' = [resp EXCEPT ![w] = Append(@, r)] /\ Finish(w, "done")
  ELSE UNCHANGED resp /\ HandleError(w)

\* ------------------------------------------------------------- ProxyHandler
do_OPTIONS(w) ==
  /\ pc[w] = "accepted" /\ req[w].svc = "proxy" /\ req[w].method = "OPTIONS"
  /\ Respond(w, OptionsResponse)
  /\ UNCHANGED <<accepted, cid, req, backend, conn, upstream, lookups, pos,
                 probe, decision>>

\* do_GET, do_POST, do_PUT, do_DELETE
Dispatch(w) ==
  /\ pc[w] = "accepted" /\ req[w].svc = "proxy"
  /\ req[w].method \in {"GET", "POST", "PUT", "DELETE"}
  /\ Finish(w, IF Route(req[w].method, req[w].target) = "STATIC"
               THEN "static" ELSE "proxy")
  /\ UNCHANGED <<accepted, cid, req, backend, conn, resp, upstream, lookups,
                 pos, probe, decision>>

\* serve_static_file up to end_headers
serve_static_file(w) ==
  LET file_path == StaticFilePath(StripQuery(req[w].target))
  IN /\ pc[w] = "static"
     /\ lookups' = [lookups EXCEPT ![w] = Append(@, file_path)]
     /\ IF ~IsFile(file_path)
        THEN Respond(w, send_error(404)) /\ UNCHANGED pos
        ELSE IF conn[w] = "open"
             THEN /\ resp' = [resp EXCEPT ![w] = Append(@, StaticHead(file_path))]
                  /\ pos' = [pos EXCEPT ![w] = 0]
                  /\ Finish(w, "stream")
             ELSE \* end_headers raises inside the try: caught and printed
                  UNCHANGED <<resp, pos>> /\ Finish(w, "done")
     /\ UNCHANGED <<accepted, cid, req, backend, conn, upstream, probe, decision>>

\* Mutant: a chunk shorter than n ends the loop before it is written
ReadChunkDropsTail(file_path, p, n) ==
  Slice("file", Resolve(file_path), p,
        IF p + n <= GetSize(file_path) THEN p + n ELSE p)

\* f.read(n) at offset p of the file at file_path
ReadChunk(file_path, p, n) ==
  Slice("file", Resolve(file_path), p, Min(p + n, GetSize(file_path)))

\* serve_static_file: one turn of the loop
StreamChunk(w) ==
  LET file_path == StaticFilePath(StripQuery(req[w].target))
      chunk == ReadChunk(file_path, pos[w], ChunkSize)
  IN /\ pc[w] = "stream"
     /\ IF chunk.hi = chunk.lo
        THEN UNCHANGED <<resp, pos>> /\ Finish(w, "done")
        ELSE IF conn[w] = "open"
             THEN /\ resp' = [resp EXCEPT ![w] = WriteBody(@, chunk)]
                  /\ pos' = [pos EXCEPT ![w] = chunk.hi]
                  /\ UNCHANGED <<pc, listening>>
             ELSE \* wfile.write raises: caught and printed
                  UNCHANGED <<resp, pos>> /\ Finish(w, "done")
     /\ UNCHANGED <<accepted, cid, req, backend, conn, upstream, lookups,
                    probe, decision>>

\* proxy_to_php, except Exception: send_error(502)
BadGateway(w) == Respond(w, send_error(502))

\* proxy_to_php up to end_headers (or to the end, when urlopen raises)
proxy_to_php(w) ==
  LET b == backend[w]
      content_length == IntOf(GetContentLength(req[w].headers))
  IN /\ pc[w] = "proxy"
     /\ IF content_length = NotANumber
        THEN \* int() raises ValueError
             UNCHANGED upstream /\ BadGateway(w)
        ELSE /\ upstream' = [upstream EXCEPT ![w] = Append(@, BackendRequest(req[w]))]
             /\ IF b.kind = "neterr"
                THEN BadGateway(w)
                ELSE IF IsHttpError(b)
                THEN IF conn[w] # "open"
                     THEN \* raised in the except clause: nothing catches it
                          UNCHANGED resp /\ HandleError(w)
                     ELSE IF b.readOk
                     THEN /\ resp' = [resp EXCEPT ![w] =
                               Append(@, Write(ErrorRelayHead(b),
                                               Slice("backend", <<>>, 0, b.bodyLen)))]
                          /\ Finish(w, "done")
                     ELSE \* e.read() raises in the except clause
                          /\ resp' = [resp EXCEPT ![w] = Append(@, ErrorRelayHead(b))]
                          /\ HandleError(w)
                ELSE IF conn[w] = "open"
                     THEN /\ resp' = [resp EXCEPT ![w] = Append(@, RelayHead(b))]
                          /\ Finish(w, "relay")
                     ELSE \* end_headers raises, and so does send_error(502)
                          BadGateway(w)
     /\ UNCHANGED <<accepted, cid, req, backend, conn, lookups, pos, probe, decision>>

\* proxy_to_php: self.wfile.write(response.read())
RelayBody(w) ==
  LET b == backend[w]
  IN /\ pc[w] = "relay"
     /\ IF b.readOk /\ conn[w] = "open"
        THEN /\ resp' = [resp EXCEPT ![w] =
                           WriteBody(@, Slice("backend", <<>>, 0, b.bodyLen))]
             /\ Finish(w, "done")
        ELSE \* response.read() or wfile.write raises
             BadGateway(w)
     /\ UNCHANGED <<accepted, cid, req, backend, conn, upstream, lookups, pos,
                    probe, decision>>

ProxyHandler(w) ==
  \/ do_OPTIONS(w)
  \/ Dispatch(w)
  \/ serve_static_file(w)
  \/ StreamChunk(w)
  \/ proxy_to_php(w)
  \/ RelayBody(w)

\* ------------------------------------------------------- CORSRequestHandler
RECURSIVE NormPath(_, _)
\* posixpath.normpath of an absolute path, then the words that are neither
\* empty nor '.' nor '..': the names left once every '..' has taken back the
\* name before it
NormPath(stack, rest) ==
  IF rest = <<>> THEN stack
  ELSE IF Head(rest) \in {"", "."} THEN NormPath(stack, Tail(rest))
  ELSE IF Head(rest) = ".." THEN NormPath(Parent(stack), Tail(rest))
  ELSE NormPath(Append(stack, Head(rest)), Tail(rest))

\* SimpleHTTPRequestHandler.translate_path
translate_path(path) ==
  LET trailing_slash == Len(path) > 1 /\ path[Len(path)] = ""
  IN API_DIR \o NormPath(<<>>, path) \o (IF trailing_slash THEN <<"">> ELSE <<>>)

\* CORSRequestHandler.do_GET: the header block of a 200
StaticServerHead(file_path) ==
  LET guessed == GuessType(file_path)
      content_type == IF guessed = "" THEN "application/octet-stream" ELSE guessed
      file_size == GetSize(file_path)
  IN send_header(
       send_header(
         StaticCorsHeaders(
           send_header(
             send_header(send_response(200), HContentType, content_type),
             HContentLength, Str(file_size))),
         HCacheControl, "public, max-age=86400"),
       HConnection, "keep-alive")

\* Length of the page list_directory generates.
ListingLen == 200 + Cardinality(DOMAIN FileSize)

\* super().do_GET() for a path that is no regular file: a directory is
\* redirected to its name with a '/' or listed (it holds no index.html),
\* anything else is a 404.
FallbackResponse(path, file_path) ==
  IF IsDir(file_path)
  THEN IF path[Len(path)] # ""
       THEN send_header(
              send_header(send_response(301), <<"Location">>, "self.path + '/'"),
              HContentLength, "0")
       ELSE Write(
              send_header(
                send_header(send_response(200), HContentType, "text/html; charset=utf-8"),
                HContentLength, Str(ListingLen)),
              Slice("listing", Resolve(file_path), 0, ListingLen))
  ELSE send_error(404)

static_do_OPTIONS(w) ==
  /\ pc[w] = "accepted" /\ req[w].svc = "static" /\ req[w].method = "OPTIONS"
  /\ Respond(w, StaticOptionsResponse)
  /\ UNCHANGED <<accepted, cid, req, backend, conn, upstream, lookups, pos,
                 probe, decision>>

\* handle_one_request: CORSRequestHandler has no do_POST, do_PUT, do_DELETE
StaticUnsupported(w) ==
  /\ pc[w] = "accepted" /\ req[w].svc = "static"
  /\ req[w].method \in {"POST", "PUT", "DELETE"}
  /\ Respond(w, send_error(501))
  /\ UNCHANGED <<accepted, cid, req, backend, conn, upstream, lookups, pos,
                 probe, decision>>

\* CORSRequestHandler.do_GET up to end_headers, or through super().do_GET()
static_do_GET(w) ==
  LET path == StripQuery(req[w].target)
      file_path == translate_path(path)
  IN /\ pc[w] = "accepted" /\ req[w].svc = "static" /\ req[w].method = "GET"
     /\ lookups' = [lookups EXCEPT ![w] = Append(@, file_path)]
     /\ IF IsFile(file_path)
        THEN IF conn[w] = "open"
             THEN /\ resp' = [resp EXCEPT ![w] = Append(@, StaticServerHead(file_path))]
                  /\ pos' = [pos EXCEPT ![w] = 0]
                  /\ Finish(w, "sstream")
             ELSE UNCHANGED <<resp, pos>> /\ HandleError(w)
        ELSE Respond(w, FallbackResponse(path, file_path)) /\ UNCHANGED pos
     /\ UNCHANGED <<accepted, cid, req, backend, conn, upstream, probe, decision>>

\* CORSRequestHandler.do_GET: one turn of the loop
StaticStream(w) ==
  LET file_path == translate_path(StripQuery(req[w].target))
      chunk == ReadChunk(file_path, pos[w], StaticChunkSize)
  IN /\ pc[w] = "sstream"
     /\ IF chunk.hi = chunk.lo
        THEN UNCHANGED <<resp, pos>> /\ Finish(w, "done")
        ELSE IF conn[w] = "open"
             THEN /\ resp' = [resp EXCEPT ![w] = WriteBody(@, chunk)]
                  /\ pos' = [pos EXCEPT ![w] = chunk.hi]
                  /\ UNCHANGED <<pc, listening>>
             ELSE \* BrokenPipeError, ConnectionResetError: pass
                  UNCHANGED <<resp, pos>> /\ Finish(w, "done")
     /\ UNCHANGED <<accepted, cid, req, backend, conn, upstream, lookups,
                    probe, decision>>

CORSRequestHandler(w) ==
  \/ static_do_OPTIONS(w)
  \/ StaticUnsupported(w)
  \/ static_do_GET(w)
  \/ StaticStream(w)

\* ----------------------------------------------------------- specifications
\* One connection, every scenario, both services.
Next ==
  \/ Accept("w1", Scenarios)
  \/ ProxyHandler("w1")
  \/ CORSRequestHandler("w1")
  \/ ClientDisconnect("w1")

Spec == Init /\ [][Next]_vars

\* Several connections at once to the proxying service, each on its thread.
NextConc ==
  \E w \in Workers :
    \/ Accept(w, ConcScenarios)
    \/ ProxyHandler(w)
    \/ ClientDisconnect(w)
    \/ Close(w)

SpecConc == Init /\ [][NextConc]_vars

\* The routing function on every method and every target of up to MaxSegs
\* segments, with and without a query string.
Segments == {"", "uploads", "..", "note.txt", "api"}

Paths == SeqsUpTo(Segments, MaxSegs) \ { <<>> }

ProbeTargets ==
  { <<p>> : p \in Paths } \cup { <<p, <<"", "uploads", "note.txt">> >> : p \in Paths }

RoutedMethods == {"GET", "POST", "PUT", "DELETE"}

InitRoute ==
  /\ InitServer
  /\ probe \in [method : RoutedMethods, target : ProbeTargets]
  /\ decision = "NONE"

RouteProbe ==
  /\ decision = "NONE"
  /\ decision' = Route(probe.method, probe.target)
  /\ UNCHANGED <<listening, accepted, workerVars, probe>>

SpecRoute == InitRoute /\ [][RouteProbe]_vars

\* =================================================================== claims
CorsNames ==
  { <<"access", "control", "allow", "origin">>,
    <<"access", "control", "allow", "methods">>,
    <<"access", "control", "allow", "headers">> }

\* How many header lines of the response r carry the lower-cased name lname.
Occurrences(r, lname) ==
  Cardinality({ i \in DOMAIN r.headers : Lower(r.headers[i][1]) = lname })

OneSetOfCors(r) == \A n \in CorsNames : Occurrences(r, n) = 1

\* The slices of body are, in order and without gap or overlap, the bytes
\* 0..n-1 of the source (kind, loc).
Covers(body, kind, loc, n) ==
  IF n = 0 THEN body = <<>>
  ELSE /\ body # <<>>
       /\ body[1].lo = 0
       /\ body[Len(body)].hi = n
       /\ \A i \in DOMAIN body :
            /\ body[i].kind = kind /\ body[i].loc = loc
            /\ body[i].lo < body[i].hi
            /\ i > 1 => body[i].lo = body[i - 1].hi

UnderUploads(target) ==
  LET path == target[1]
  IN Len(path) >= 3 /\ path[1] = "" /\ path[2] = "uploads"

\* C1: every response either service writes, on every path, carries exactly
\* one Access-Control-Allow-Origin, one Access-Control-Allow-Methods and one
\* Access-Control-Allow-Headers line.
C1_EveryResponseHasOneSetOfCors ==
  \A w \in Workers : \A i \in DOMAIN resp[w] : OneSetOfCors(resp[w][i])

\* C2: a proxied request whose call to the backend fails at the network level
\* is answered 502 with a diagnostic body, and that 502 carries the CORS
\* headers.
C2_BadGatewayCarriesCors ==
  \A w \in Workers :
    ( /\ pc[w] = "done" /\ upstream[w] # <<>>
      /\ backend[w].kind = "neterr" )
    => /\ Len(resp[w]) = 1
       /\ resp[w][1].status = 502
       /\ resp[w][1].body # <<>>
       /\ OneSetOfCors(resp[w][1])

\* C3: the routing decision is STATIC or PROXY, and it is STATIC exactly when
\* the method is GET and the path without its query string starts with
\* '/uploads/'.
C3_RouteIsTotalAndExact ==
  decision # "NONE" =>
    /\ decision \in {"STATIC", "PROXY"}
    /\ decision = "STATIC" <=> (probe.method = "GET" /\ UnderUploads(probe.target))

C3_Witness ==
  /\ decision = "STATIC" /\ Len(probe.target) = 2
  /\ probe.target[1] = <<"", "uploads", "..", "note.txt">>

\* C4: the request issued to the backend has the inbound method and
\* path+query, a body of exactly Content-Length inbound bytes when that is
\* present and positive and none otherwise, and every inbound header line,
\* name and value, whose name is not Host or Content-Length in any letter
\* case.
C4_ForwardPreservesRequest ==
  \A w \in Workers : \A i \in DOMAIN upstream[w] :
    LET u == upstream[w][i]
        declared == IntOf(GetContentLength(req[w].headers))
    IN /\ u.method = req[w].method
       /\ u.target = req[w].target
       /\ u.body = IF declared > 0
                   THEN << Slice("inbound", <<>>, 0, declared) >> ELSE <<>>
       /\ \A k \in DOMAIN req[w].headers :
            LET h == req[w].headers[k]
            IN Lower(h[1]) \notin { <<"host">>, <<"content", "length">> }
               => \E j \in DOMAIN u.headers :
                    /\ Lower(u.headers[j][1]) = Lower(h[1])
                    /\ u.headers[j][2] = h[2]

Excepted(lname) ==
  \/ lname \in { <<"transfer", "encoding">>, <<"connection">> }
  \/ (Len(lname) > 2 /\ lname[1] = "access" /\ lname[2] = "control")

\* The request reached the backend and its whole answer came back.
Answered(w) ==
  /\ pc[w] = "done" /\ upstream[w] # <<>>
  /\ backend[w].kind = "http" /\ backend[w].readOk

\* C5: when the backend answers a proxied request, with a 2xx or with a 4xx
\* or 5xx, the client gets the backend's status and body; on a 2xx it gets
\* every header line of the backend except Transfer-Encoding, Connection and
\* Access-Control-*, and no such line of the backend is ever written to the
\* client.
C5_RelayIsFaithful ==
  \A w \in Workers :
    /\ Answered(w) =>
         /\ Len(resp[w]) = 1
         /\ resp[w][1].status = backend[w].status
         /\ Covers(resp[w][1].body, "backend", <<>>, backend[w].bodyLen)
         /\ backend[w].status \in 200..299 =>
              \A k \in DOMAIN backend[w].headers :
                ~Excepted(Lower(backend[w].headers[k][1])) =>
                  \E j \in DOMAIN resp[w][1].headers :
                    resp[w][1].headers[j] = backend[w].headers[k]
    /\ \A i \in DOMAIN resp[w] : \A j \in DOMAIN resp[w][i].headers :
         \A k \in DOMAIN backend[w].headers :
           Excepted(Lower(backend[w].headers[k][1])) =>
             resp[w][i].headers[j] # backend[w].headers[k]

C5_Witness ==
  /\ Answered("w1")
  /\ backend["w1"].status = 201 /\ backend["w1"].bodyLen = 12
  /\ backend["w1"].headers =
       << <<(<<"ACCESS", "CONTROL", "allow", "methods">>), "GET">>,
          <<(<<"Content", "Type">>), "application/json">> >>

\* The static request of worker w was served to a client that stayed.
StaticServed(w) ==
  /\ req[w].svc = "proxy" /\ req[w].method = "GET" /\ UnderUploads(req[w].target)
  /\ pc[w] = "done" /\ conn[w] = "open"

\* C6: a GET under '/uploads/' to ProxyHandler is answered 200 with the
\* file's size as Content-Length and exactly the file's bytes as body when a
\* regular file is at the resolved location, whatever its size, and 404 when
\* none is.
C6_StaticFileServedWhole ==
  \A w \in Workers :
    StaticServed(w) =>
      LET file_path == API_DIR \o Tail(req[w].target[1])
      IN /\ Len(resp[w]) = 1
         /\ IF Resolve(file_path) \in DOMAIN FileSize
            THEN /\ resp[w][1].status = 200
                 /\ \E j \in DOMAIN resp[w][1].headers :
                      resp[w][1].headers[j] =
                        <<HContentLength, Str(FileSize[Resolve(file_path)])>>
                 /\ Occurrences(resp[w][1], <<"content", "length">>) = 1
                 /\ Covers(resp[w][1].body, "file", Resolve(file_path),
                           FileSize[Resolve(file_path)])
            ELSE resp[w][1].status = 404

C6_Witness ==
  /\ StaticServed("w1")
  /\ req["w1"].target = << UploadsCar, <<"v=2">> >>
  /\ Len(resp["w1"][1].body) > 2
  /\ resp["w1"][1].body[Len(resp["w1"][1].body)].hi = 500000

Preflight(w) == req[w].method = "OPTIONS"

\* C7 as stated: an OPTIONS request, to either service, is answered 200 with
\* an empty body and the CORS headers only, and neither the backend nor the
\* file system is touched.
C7_PreflightOnlyCors ==
  \A w \in Workers :
    Preflight(w) =>
      /\ upstream[w] = <<>> /\ lookups[w] = <<>>
      /\ pc[w] = "done" =>
           /\ Len(resp[w]) = 1
           /\ resp[w][1].status = 200
           /\ resp[w][1].body = <<>>
           /\ OneSetOfCors(resp[w][1])
           /\ \A j \in DOMAIN resp[w][1].headers :
                Lower(resp[w][1].headers[j][1]) \in CorsNames

\* C7 as amended: the same, where the header block holds the CORS headers and
\* nothing else but the Server and Date lines send_response writes.
C7_PreflightCorsServerDate ==
  \A w \in Workers :
    Preflight(w) =>
      /\ upstream[w] = <<>> /\ lookups[w] = <<>>
      /\ pc[w] \notin {"static", "stream", "sstream", "proxy", "relay"}
      /\ pc[w] = "done" =>
           /\ Len(resp[w]) = 1
           /\ resp[w][1].status = 200
           /\ resp[w][1].body = <<>>
           /\ OneSetOfCors(resp[w][1])
           /\ \A j \in DOMAIN resp[w][1].headers :
                Lower(resp[w][1].headers[j][1])
                  \in CorsNames \cup { <<"server">>, <<"date">> }

C7_Witness ==
  /\ Preflight("w1") /\ pc["w1"] = "done"
  /\ req["w1"].svc = "proxy" /\ UnderUploads(req["w1"].target)
  /\ Len(resp["w1"]) = 1

\* C8: whatever the path under '/uploads/', traversal sequences included, the
\* location serve_static_file tests and streams lies under the root, and no
\* file outside the root is read.
C8_StaticStaysUnderRoot ==
  \A w \in Workers :
    req[w].svc = "proxy" =>
      /\ \A i \in DOMAIN lookups[w] :
           Resolve(lookups[w][i]) # NoEnt => UnderRoot(Resolve(lookups[w][i]))
      /\ \A i \in DOMAIN resp[w] : \A j \in DOMAIN resp[w][i].body :
           resp[w][i].body[j].kind = "file" => UnderRoot(resp[w][i].body[j].loc)

\* What belongs to the connection worker w serves.
Own(w) ==
  <<pc[w], cid[w], req[w], backend[w], conn[w], resp[w], upstream[w],
    lookups[w], pos[w]>>

\* C9: with several connections served at once, each step, failures
\* included, touches the connection of one worker only, and the server stays
\* in its accept loop.
C9_FailuresStayInTheirRequest ==
  [][ /\ listening'
      /\ \A w \in Workers : \A v \in Workers \ {w} :
           Own(w)' # Own(w) => Own(v)' = Own(v) ]_vars

C9_Witness ==
  /\ pc["w1"] = "crashed"
  /\ cid["w2"] > cid["w1"]
  /\ pc["w2"] = "done" /\ conn["w2"] = "open"
  /\ req["w2"].target = << <<"", "uploads", "note.txt">> >>
  /\ req["w2"].method = "GET"
  /\ Len(resp["w2"]) = 1 /\ resp["w2"][1].status = 200
  /\ Covers(resp["w2"][1].body, "file", <<"srv", "api", "uploads", "note.txt">>, 5)

\* C10: ProxyHandler writes at most one response, status line and header
\* block, per request, also when reading the backend's body or writing to the
\* client fails after the headers went out.
C10_AtMostOneResponse ==
  \A w \in Workers : req[w].svc = "proxy" => Len(resp[w]) <= 1
====
